---- MODULE Spec2Model ----
\* Model of the SQS producer/consumer pair of aws-s3-service:
\*   app/services/sqs_service.py  (send_message, _process_message, poll_sqs)
\*   app/main.py                  (lifespan: start-up and shutdown of the consumer task)
\* together with the queue provider those functions talk to and the asyncio
\* task/worker-thread machinery they run on.
EXTENDS Integers, Sequences, FiniteSets, TLC

\* ---------------------------------------------------------------------------
\* Bounds of the model
\* ---------------------------------------------------------------------------
MaxMsgs == 2            \* message slots of the queue
MaxDeliveries == 2      \* deliveries of one message before the provider stops redelivering
RecursionLimit == 2     \* nesting depth at which the JSON scanner raises RecursionError
MaxSends == 2           \* messages the producer gets accepted

\* ---------------------------------------------------------------------------
\* Program constants
\* ---------------------------------------------------------------------------
MaxNumberOfMessages == 10
WaitTimeSeconds == 20
Cooldown == 5

None == "None"

\* ---------------------------------------------------------------------------
\* Message bodies, as token sequences
\* ---------------------------------------------------------------------------
NumTokens == {"1", "2"}
StrTokens == {"\"id\"", "\"user_id\"", "\"data_type\"", "\"u1\"", "\"personal\""}

BodyId1 == <<"{", "\"id\"", ":", "1", "}">>
BodyId2 == <<"{", "\"id\"", ":", "2", "}">>
BodyNotJson == <<"not-json">>
BodyDeep == [i \in 1..(2 * (RecursionLimit + 1)) |->
               IF i <= RecursionLimit + 1 THEN "[" ELSE "]"]

\* json.loads: a recursive-descent scan of the tokens. The result is
\* [tag |-> "ok", val, rest], or tag "JSONDecodeError" / "RecursionError".
DecodeError == [tag |-> "JSONDecodeError", val |-> <<>>, rest |-> <<>>]
DepthError == [tag |-> "RecursionError", val |-> <<>>, rest |-> <<>>]
Parsed(v, r) == [tag |-> "ok", val |-> v, rest |-> r]

RECURSIVE ScanValue(_, _)
RECURSIVE ScanArray(_, _, _)
RECURSIVE ScanObject(_, _, _)

ScanArray(t, d, acc) ==
    LET v == ScanValue(t, d) IN
    IF v.tag # "ok" THEN v
    ELSE IF v.rest = <<>> THEN DecodeError
    ELSE IF Head(v.rest) = "]" THEN Parsed(<<"array", Append(acc, v.val)>>, Tail(v.rest))
    ELSE IF Head(v.rest) = "," THEN ScanArray(Tail(v.rest), d, Append(acc, v.val))
    ELSE DecodeError

ScanObject(t, d, acc) ==
    IF Len(t) < 2 \/ Head(t) \notin StrTokens \/ t[2] # ":" THEN DecodeError
    ELSE LET v == ScanValue(Tail(Tail(t)), d) IN
         IF v.tag # "ok" THEN v
         ELSE IF v.rest = <<>> THEN DecodeError
         ELSE IF Head(v.rest) = "}"
              THEN Parsed(<<"object", Append(acc, <<Head(t), v.val>>)>>, Tail(v.rest))
         ELSE IF Head(v.rest) = ","
              THEN ScanObject(Tail(v.rest), d, Append(acc, <<Head(t), v.val>>))
         ELSE DecodeError

ScanValue(t, d) ==
    IF t = <<>> THEN DecodeError
    ELSE LET h == Head(t) IN
         IF h \in NumTokens THEN Parsed(<<"number", h>>, Tail(t))
         ELSE IF h \in StrTokens THEN Parsed(<<"string", h>>, Tail(t))
         ELSE IF h = "["
              THEN IF d >= RecursionLimit THEN DepthError
                   ELSE IF Len(t) >= 2 /\ t[2] = "]"
                        THEN Parsed(<<"array", <<>>>>, Tail(Tail(t)))
                        ELSE ScanArray(Tail(t), d + 1, <<>>)
         ELSE IF h = "{"
              THEN IF d >= RecursionLimit THEN DepthError
                   ELSE IF Len(t) >= 2 /\ t[2] = "}"
                        THEN Parsed(<<"object", <<>>>>, Tail(Tail(t)))
                        ELSE ScanObject(Tail(t), d + 1, <<>>)
         ELSE DecodeError

json_loads(body) ==
    LET v == ScanValue(body, 0) IN
    IF v.tag = "ok" /\ v.rest # <<>> THEN DecodeError ELSE v

\* variant: no except clause, a JSONDecodeError leaves the function
process_message_NoFallback(message) ==
    LET r == json_loads(message.Body) IN
    IF r.tag = "ok"
    THEN [out |-> "return", log |-> "processed", val |-> r.val]
    ELSE [out |-> "raise", log |-> "none", val |-> <<>>]

\* _process_message: parse the body, fall back to the raw string on
\* JSONDecodeError; any other exception of json.loads leaves the function.
process_message(message) ==
    LET body == message.Body
        r == json_loads(body) IN
    IF r.tag = "ok"
    THEN [out |-> "return", log |-> "processed", val |-> r.val]
    ELSE IF r.tag = "JSONDecodeError"
    THEN [out |-> "return", log |-> "processed_raw", val |-> body]
    ELSE [out |-> "raise", log |-> "none", val |-> <<>>]

\* Python values, tagged with their type: <<"int", n>>, <<"str", s>>,
\* <<"None", 0>>, <<"date", n>>, <<"Decimal", n>>, and <<"dict", items>> with
\* items a sequence of <<key, value>> pairs.
PyNone == <<"None", 0>>
PyInt(n) == <<"int", n>>
PyStr(s) == <<"str", s>>
PyDict(items) == <<"dict", items>>

Digits == <<"0", "1", "2", "3", "4", "5", "6", "7", "8", "9">>

RECURSIVE FormatInt(_)
FormatInt(n) == IF n < 10 THEN Digits[n + 1] ELSE FormatInt(n \div 10) \o Digits[(n % 10) + 1]

Quote(k) == "\"" \o k \o "\""

\* json.dumps with the default encoder: it knows dict, str, int and None and
\* raises TypeError on any other object
RECURSIVE Dumpable(_)
Dumpable(v) ==
    IF v[1] = "dict" THEN \A i \in 1..Len(v[2]) : Dumpable(v[2][i][2])
    ELSE v[1] \in {"int", "str", "None"}

RECURSIVE DumpValue(_)
RECURSIVE DumpItems(_)
DumpItems(items) ==
    IF items = <<>> THEN <<>>
    ELSE <<Quote(items[1][1]), ":">> \o DumpValue(items[1][2])
         \o (IF Len(items) > 1 THEN <<",">> ELSE <<>>)
         \o DumpItems(Tail(items))

DumpValue(v) ==
    IF v[1] = "dict" THEN <<"{">> \o DumpItems(v[2]) \o <<"}">>
    ELSE IF v[1] = "int" THEN <<FormatInt(v[2])>>
    ELSE IF v[1] = "str" THEN <<Quote(v[2])>>
    ELSE <<"null">>

json_dumps(payload) ==
    IF Dumpable(payload) THEN [tag |-> "ok", val |-> DumpValue(payload)]
    ELSE [tag |-> "TypeError", val |-> <<>>]

\* payloads and keys a caller of send_message passes
Payloads == {PyDict(<<<<"id", PyInt(1)>>>>), PyDict(<<<<"id", PyInt(2)>>>>)}
GroupIds == {None, "", "group-A"}
DedupIds == {None, "", "dedup-1"}

\* variant: `if message_group_id is not None:` lets the empty string through
Truthy_NotNone(v) == v # None

\* truth value of an optional string: `if message_group_id:`
Truthy(v) == v # None /\ v # ""

\* ---------------------------------------------------------------------------
\* Database rows and the values POST /users/sqs/send builds from them
\* ---------------------------------------------------------------------------
\* date.isoformat() / datetime.isoformat()
IsoFormat(n) == "2024-01-0" \o FormatInt(n)

\* _serialisable: dicts are rebuilt value by value, dates become strings,
\* every other object is returned as it is
RECURSIVE serialisable(_)
serialisable(obj) ==
    IF obj[1] = "dict"
    THEN PyDict([i \in 1..Len(obj[2]) |-> <<obj[2][i][1], serialisable(obj[2][i][2])>>])
    ELSE IF obj[1] = "date" THEN PyStr(IsoFormat(obj[2]))
    ELSE obj

\* truth value of a row or None, as any([...]) takes it
TruthyValue(v) == v[1] # "None" /\ ~(v[1] = "dict" /\ v[2] = <<>>)

UserId == "u1"

\* dict(row) of the three tables: TEXT is str, INTEGER is int, DATE and
\* TIMESTAMPTZ are date/datetime, NUMERIC is Decimal, NULL is None
PersonalRows == {PyDict(<<<<"user_id", PyStr(UserId)>>, <<"date_of_birth", <<"date", 1>>>>>>)}
FinancialRows == {PyDict(<<<<"user_id", PyStr(UserId)>>, <<"credit_score", PyInt(7)>>,
                           <<"annual_income", PyNone>>>>),
                  PyDict(<<<<"user_id", PyStr(UserId)>>, <<"credit_score", PyInt(7)>>,
                           <<"annual_income", <<"Decimal", 5>>>>>>)}
HealthRows == {PyDict(<<<<"user_id", PyStr(UserId)>>, <<"blood_type", PyStr("A+")>>,
                        <<"created_at", <<"date", 2>>>>>>)}

\* the rows of one user: each table holds a row or none
Databases == [personal : PersonalRows \cup {PyNone},
              financial : FinancialRows \cup {PyNone},
              health : HealthRows \cup {PyNone}]

\* get_user_full
get_user_full(d) == PyDict(<<<<"user_id", PyStr(UserId)>>, <<"personal", d.personal>>,
                            <<"financial", d.financial>>, <<"health", d.health>>>>)

DataTypes == {"personal", "financial", "health", "all", "everything"}

\* message_group_id and message_deduplication_id of the request bodies
RequestGroupIds == {None, "group-A"}
RequestDedupIds == {None}

NoRequest == [st |-> "idle", data_type |-> "", gid |-> None, did |-> None,
              read |-> FALSE, found |-> FALSE, calls |-> 0, status |-> 0, message_id |-> 0]


\* ---------------------------------------------------------------------------
\* State
\* ---------------------------------------------------------------------------
VARIABLES
    sup,          \* position of lifespan: init, serving, awaiting, closing, closed, crashed
    pool,         \* database pool: none, open, closed
    stop,         \* stop_event
    must_cancel,  \* a cancellation of sqs_task is pending delivery
    pc,           \* position of poll_sqs: none, created, receive, delete, sleep,
                  \*   done, cancelled, failed
    batch,        \* messages of the current response
    idx,          \* position of the for loop in batch
    call,         \* the asyncio.to_thread call of the consumer (worker thread)
    timer,        \* delay of the asyncio.sleep in progress, 0 when none
    log,          \* last line the consumer logged
    queue,        \* the provider's queue: per message slot its body, status, receive count
    processed,    \* per delivery: the outcome of _process_message
    ndel,         \* per delivery: delete calls issued
    acked,        \* per delivery: the provider acknowledged a delete
    settings,     \* app.config.settings
    snd,          \* the send_message invocation in progress, or the last one
    db,           \* the rows of the user in the three tables
    rt            \* the POST /users/sqs/send request in progress, or the last one

vars == <<sup, pool, stop, must_cancel, pc, batch, idx, call, timer, log,
          queue, processed, ndel, acked, settings, snd, db, rt>>

httpVars == <<db, rt>>
prodVars == <<settings, snd, db, rt>>

supVars == <<sup, pool, stop, must_cancel>>
histVars == <<processed, ndel>>
loopVars == <<batch, idx, processed, ndel>>

Msgs == DOMAIN queue
Deliveries == Msgs \X (1..MaxDeliveries)

NoCall == [op |-> "none", st |-> "none", owner |-> "none", rh |-> <<>>,
           max |-> 0, wait |-> 0, res |-> "none", msgs |-> <<>>]

\* variant: the receive asks for one message and one time unit more
ReceiveRequest_Larger == [op |-> "receive", st |-> "pending", owner |-> "task", rh |-> <<>>,
                          max |-> MaxNumberOfMessages + 1, wait |-> WaitTimeSeconds + 1,
                          res |-> "none", msgs |-> <<>>]

\* client.receive_message(QueueUrl, MaxNumberOfMessages=10, WaitTimeSeconds=20)
ReceiveRequest == [op |-> "receive", st |-> "pending", owner |-> "task", rh |-> <<>>,
                   max |-> MaxNumberOfMessages, wait |-> WaitTimeSeconds,
                   res |-> "none", msgs |-> <<>>]

\* variant: the delete names the first delivery of the message
DeleteRequest_FirstDelivery(msg) ==
    [op |-> "delete", st |-> "pending", owner |-> "task",
     rh |-> <<msg.MessageId, 1>>, max |-> 0, wait |-> 0,
     res |-> "none", msgs |-> <<>>]

\* client.delete_message(QueueUrl, ReceiptHandle=msg["ReceiptHandle"])
DeleteRequest(msg) == [op |-> "delete", st |-> "pending", owner |-> "task",
                       rh |-> msg.ReceiptHandle, max |-> 0, wait |-> 0,
                       res |-> "none", msgs |-> <<>>]

NotProcessed == [out |-> "none", log |-> "none", val |-> <<>>]

NoSend == [st |-> "idle", payload |-> <<>>, gid |-> None, did |-> None,
           kwargs |-> [QueueUrl |-> "", MessageBody |-> <<>>], calls |-> 0, ret |-> 0]

Fetched == [out |-> "fetched", log |-> "none", val |-> <<>>]

\* The queues the consumer is started on: the three messages of the
\* malformed-body scenario, and a queue of MaxMsgs messages of which one is
\* nested too deeply for the JSON scanner.
DeepScenario == [m \in 1..MaxMsgs |-> IF m = 1 THEN BodyId1 ELSE IF m = 2 THEN BodyDeep
                                      ELSE IF m = 3 THEN BodyNotJson ELSE BodyId2]

ScenarioBodies == {<<BodyId1, BodyId2, BodyNotJson>>, DeepScenario}

Init ==
    /\ sup = "init"
    /\ pool = "none"
    /\ stop = FALSE
    /\ must_cancel = FALSE
    /\ pc = "none"
    /\ batch = <<>>
    /\ idx = 0
    /\ call = NoCall
    /\ timer = 0
    /\ log = "none"
    /\ \E b \in ScenarioBodies :
         queue = [m \in DOMAIN b |-> [Body |-> b[m], st |-> "visible", rc |-> 0]]
    /\ processed = [d \in Deliveries |-> NotProcessed]
    /\ ndel = [d \in Deliveries |-> 0]
    /\ acked = [d \in Deliveries |-> FALSE]
    /\ settings = [sqs_queue_url |-> "https://sqs/standard-queue", fifo |-> FALSE]
    /\ snd = NoSend
    /\ db = [personal |-> PyNone, financial |-> PyNone, health |-> PyNone]
    /\ rt = NoRequest

\* ---------------------------------------------------------------------------
\* Supervisor: lifespan
\* ---------------------------------------------------------------------------
TaskDone == pc \in {"done", "cancelled", "failed"}

\* init_pool(); stop_event = Event(); sqs_task = create_task(poll_sqs(stop_event)); yield
Startup ==
    /\ sup = "init"
    /\ sup' = "serving"
    /\ pool' = "open"
    /\ pc' = "created"
    /\ UNCHANGED <<stop, must_cancel, batch, idx, call, timer, log,
                   queue, processed, ndel, acked, prodVars>>

\* variant: the shutdown code goes straight to awaiting the task
Shutdown_NoSignal ==
    /\ sup = "serving"
    /\ sup' = "awaiting"
    /\ UNCHANGED <<pool, stop, must_cancel, pc, batch, idx, call, timer, log,
                   queue, processed, ndel, acked, prodVars>>

\* variant: the stop signal is set but the task is not cancelled
Shutdown_NoCancel ==
    /\ sup = "serving"
    /\ stop' = TRUE
    /\ sup' = "awaiting"
    /\ UNCHANGED <<pool, must_cancel, pc, batch, idx, call, timer, log,
                   queue, processed, ndel, acked, prodVars>>

\* stop_event.set(); sqs_task.cancel(): no await between the two, and
\* Task.cancel() does nothing on a task that is already done.
Shutdown ==
    /\ sup = "serving"
    /\ stop' = TRUE
    /\ must_cancel' = ~TaskDone
    /\ sup' = "awaiting"
    /\ UNCHANGED <<pool, pc, batch, idx, call, timer, log, queue, processed, ndel, acked, prodVars>>

\* variant: the task is not awaited before the pool is closed
AwaitTask_NoWait ==
    /\ sup = "awaiting"
    /\ sup' = "closing"
    /\ UNCHANGED <<pool, stop, must_cancel, pc, batch, idx, call, timer, log,
                   queue, processed, ndel, acked, prodVars>>

\* await sqs_task returns, or raises CancelledError, which is swallowed
AwaitTask ==
    /\ sup = "awaiting"
    /\ pc \in {"done", "cancelled"}
    /\ sup' = "closing"
    /\ UNCHANGED <<pool, stop, must_cancel, pc, batch, idx, call, timer, log,
                   queue, processed, ndel, acked, prodVars>>

\* await sqs_task re-raises the exception that ended the task
AwaitTaskRaises ==
    /\ sup = "awaiting"
    /\ pc = "failed"
    /\ sup' = "crashed"
    /\ UNCHANGED <<pool, stop, must_cancel, pc, batch, idx, call, timer, log,
                   queue, processed, ndel, acked, prodVars>>

\* await db_service.close_pool()
ClosePool ==
    /\ sup = "closing"
    /\ sup' = "closed"
    /\ pool' = "closed"
    /\ UNCHANGED <<stop, must_cancel, pc, batch, idx, call, timer, log,
                   queue, processed, ndel, acked, prodVars>>

\* ---------------------------------------------------------------------------
\* Consumer: poll_sqs. One action per run of the coroutine between two awaits.
\* ---------------------------------------------------------------------------
\* while not stop_event.is_set(): ... await to_thread(client.receive_message, ...)
LoopTop(line) ==
    IF stop
    THEN /\ pc' = "done"
         /\ call' = NoCall
         /\ log' = "stopped"
         /\ batch' = <<>>
         /\ idx' = 0
    ELSE /\ pc' = "receive"
         /\ call' = ReceiveRequest
         /\ log' = line
         /\ batch' = <<>>
         /\ idx' = 0

\* variant: the handler logs and retries at once, without the sleep
ExceptException_NoCooldown ==
    /\ pc' = "receive"
    /\ call' = ReceiveRequest
    /\ log' = "error"
    /\ timer' = 0
    /\ batch' = <<>>
    /\ idx' = 0

\* variant: no except clause, the exception ends the task
ExceptException_Reraise ==
    /\ pc' = "failed"
    /\ call' = NoCall
    /\ log' = log
    /\ timer' = 0
    /\ batch' = <<>>
    /\ idx' = 0

\* except Exception: logger.exception(...); await asyncio.sleep(5)
ExceptException ==
    /\ pc' = "sleep"
    /\ call' = NoCall
    /\ log' = "error"
    /\ timer' = Cooldown
    /\ batch' = <<>>
    /\ idx' = 0

\* variant: the delete sits in a finally clause and runs after a raise too
ProcessAt_DeleteAlways(b, i, pr) ==
    LET msg == b[i]
        r == process_message(msg)
        d == msg.ReceiptHandle IN
    /\ processed' = [pr EXCEPT ![d] = r]
    /\ batch' = b
    /\ idx' = i
    /\ pc' = "delete"
    /\ call' = DeleteRequest(msg)
    /\ ndel' = [ndel EXCEPT ![d] = @ + 1]
    /\ log' = r.log
    /\ timer' = timer

\* for msg in messages: _process_message(msg); await to_thread(client.delete_message, ...)
ProcessAt(b, i, pr) ==
    LET msg == b[i]
        r == process_message(msg)
        d == msg.ReceiptHandle IN
    /\ processed' = [pr EXCEPT ![d] = r]
    /\ IF r.out = "return"
       THEN /\ batch' = b
            /\ idx' = i
            /\ pc' = "delete"
            /\ call' = DeleteRequest(msg)
            /\ ndel' = [ndel EXCEPT ![d] = @ + 1]
            /\ log' = r.log
            /\ timer' = timer
       ELSE /\ ndel' = ndel
            /\ ExceptException

\* first step of the task: _get_sqs_client(), "consumer started", enter the loop
TaskStart ==
    /\ pc = "created"
    /\ ~must_cancel
    /\ LoopTop("started")
    /\ UNCHANGED <<supVars, histVars, timer, queue, acked, prodVars>>

\* _get_sqs_client() raises (line 70 is outside the try)
TaskStartFails ==
    /\ pc = "created"
    /\ ~must_cancel
    /\ pc' = "failed"
    /\ UNCHANGED <<supVars, loopVars, call, timer, log, queue, acked, prodVars>>

ReceiveReturns ==
    /\ pc = "receive"
    /\ ~must_cancel
    /\ call.st = "returned"
    /\ call.res = "ok"
    /\ IF call.msgs = <<>>
       THEN /\ LoopTop(log)
            /\ UNCHANGED <<histVars, timer>>
       ELSE ProcessAt(call.msgs, 1,
                      [d \in Deliveries |->
                         IF \E i \in 1..Len(call.msgs) : call.msgs[i].ReceiptHandle = d
                         THEN Fetched ELSE processed[d]])
    /\ UNCHANGED <<supVars, queue, acked, prodVars>>

ReceiveRaises ==
    /\ pc = "receive"
    /\ ~must_cancel
    /\ call.st = "returned"
    /\ call.res = "error"
    /\ ExceptException
    /\ UNCHANGED <<supVars, histVars, queue, acked, prodVars>>

\* variant: the delete is started and not awaited, the loop moves on at once
DeleteReturns_NoAwait ==
    /\ pc = "delete"
    /\ ~must_cancel
    /\ call.st = "pending"
    /\ IF idx < Len(batch)
       THEN ProcessAt(batch, idx + 1, processed)
       ELSE /\ LoopTop(log)
            /\ UNCHANGED <<histVars, timer>>
    /\ UNCHANGED <<supVars, queue, acked, prodVars>>

\* await to_thread(client.delete_message, ...) returns: next message of the
\* batch, or back to the top of the loop
DeleteReturns ==
    /\ pc = "delete"
    /\ ~must_cancel
    /\ call.st = "returned"
    /\ call.res = "ok"
    /\ IF idx < Len(batch)
       THEN ProcessAt(batch, idx + 1, processed)
       ELSE /\ LoopTop(log)
            /\ UNCHANGED <<histVars, timer>>
    /\ UNCHANGED <<supVars, queue, acked, prodVars>>

\* variant: a failed delete is issued again for the same message
DeleteRaises_Retry ==
    /\ pc = "delete"
    /\ ~must_cancel
    /\ call.st = "returned"
    /\ call.res = "error"
    /\ ndel[call.rh] < 3
    /\ call' = [call EXCEPT !.st = "pending", !.res = "none"]
    /\ ndel' = [ndel EXCEPT ![call.rh] = @ + 1]
    /\ UNCHANGED <<supVars, pc, batch, idx, processed, timer, log, queue, acked, prodVars>>

DeleteRaises ==
    /\ pc = "delete"
    /\ ~must_cancel
    /\ call.st = "returned"
    /\ call.res = "error"
    /\ ExceptException
    /\ UNCHANGED <<supVars, histVars, queue, acked, prodVars>>

\* asyncio.sleep(5) returns once its delay has passed
SleepReturns ==
    /\ pc = "sleep"
    /\ ~must_cancel
    /\ timer' = 0
    /\ LoopTop(log)
    /\ UNCHANGED <<supVars, histVars, queue, acked, prodVars>>

\* variant: the except clause catches the CancelledError as well
\* (`except BaseException`), so the cancellation is logged and slept on
TaskCancelled_Caught ==
    /\ must_cancel
    /\ pc \in {"created", "receive", "delete", "sleep"}
    /\ must_cancel' = FALSE
    /\ ExceptException
    /\ UNCHANGED <<sup, pool, stop, histVars, queue, acked, prodVars>>

\* CancelledError is thrown into the coroutine at its await. It is not an
\* Exception, so the except clause does not catch it. A worker thread that
\* has started keeps running; one that has not started is dropped.
TaskCancelled ==
    /\ must_cancel
    /\ pc \in {"created", "receive", "delete", "sleep"}
    /\ pc' = "cancelled"
    /\ must_cancel' = FALSE
    /\ \/ call' = NoCall
       \/ /\ call.st = "pending"
          /\ call' = [call EXCEPT !.owner = "orphan"]
    /\ batch' = <<>>
    /\ idx' = 0
    /\ timer' = 0
    /\ UNCHANGED <<sup, pool, stop, histVars, log, queue, acked, prodVars>>

\* ---------------------------------------------------------------------------
\* Queue provider
\* ---------------------------------------------------------------------------
Visible == {m \in Msgs : queue[m].st = "visible"}

Perms(S) == {f \in [1..Cardinality(S) -> S] : \A i, j \in 1..Cardinality(S) : f[i] = f[j] => i = j}

Batches(max) == UNION {Perms(S) : S \in {T \in SUBSET Visible : Cardinality(T) <= max}}

Delivery(m) == [MessageId |-> m, Body |-> queue[m].Body,
                ReceiptHandle |-> <<m, queue[m].rc + 1>>]

\* what the worker thread hands back: to the coroutine, or to nobody
Finish(result) == IF call.owner = "task" THEN result ELSE NoCall

\* receive_message takes a batch of visible messages in flight
ProviderReceive(b) ==
    /\ call.op = "receive"
    /\ call.st = "pending"
    /\ queue' = [m \in Msgs |->
                   IF \E i \in 1..Len(b) : b[i] = m
                   THEN [queue[m] EXCEPT !.st = "inflight", !.rc = @ + 1]
                   ELSE queue[m]]
    /\ call' = Finish([call EXCEPT !.st = "returned", !.res = "ok",
                                   !.msgs = [i \in 1..Len(b) |-> Delivery(b[i])]])
    /\ UNCHANGED <<supVars, pc, loopVars, timer, log, acked, prodVars>>

ProviderReceiveFails ==
    /\ call.op = "receive"
    /\ call.st = "pending"
    /\ call' = Finish([call EXCEPT !.st = "returned", !.res = "error"])
    /\ UNCHANGED <<supVars, pc, loopVars, timer, log, queue, acked, prodVars>>

\* delete_message removes the message the receipt handle was issued for
ProviderDelete ==
    /\ call.op = "delete"
    /\ call.st = "pending"
    /\ LET m == call.rh[1] IN
       /\ queue[m].rc = call.rh[2]
       /\ queue' = [queue EXCEPT ![m].st = "deleted"]
    /\ acked' = [acked EXCEPT ![call.rh] = TRUE]
    /\ call' = Finish([call EXCEPT !.st = "returned", !.res = "ok"])
    /\ UNCHANGED <<supVars, pc, loopVars, timer, log, prodVars>>

ProviderDeleteFails ==
    /\ call.op = "delete"
    /\ call.st = "pending"
    /\ call' = Finish([call EXCEPT !.st = "returned", !.res = "error"])
    /\ UNCHANGED <<supVars, pc, loopVars, timer, log, queue, acked, prodVars>>

\* the visibility timeout of an in-flight message expires
Expire(m) ==
    /\ queue[m].st = "inflight"
    /\ queue[m].rc < MaxDeliveries
    /\ queue' = [queue EXCEPT ![m].st = "visible"]
    /\ UNCHANGED <<supVars, pc, loopVars, call, timer, log, acked, prodVars>>

\* ---------------------------------------------------------------------------
\* Producer: send_message, called by the request handlers while the app serves
\* ---------------------------------------------------------------------------
WithKey(kwargs, key, value) == IF Truthy(value) THEN (key :> value) @@ kwargs ELSE kwargs

\* kwargs of client.send_message
send_kwargs(body, message_group_id, message_deduplication_id) ==
    WithKey(WithKey([QueueUrl |-> settings.sqs_queue_url, MessageBody |-> body],
                    "MessageGroupId", message_group_id),
            "MessageDeduplicationId", message_deduplication_id)

\* send_message up to client.send_message(**kwargs): json.dumps either
\* raises TypeError, and the function is left before any call, or gives the
\* body of the one call
send_message(payload, gid, did) ==
    LET body == json_dumps(payload) IN
    snd' = IF body.tag = "ok"
           THEN [st |-> "called", payload |-> payload, gid |-> gid, did |-> did,
                 kwargs |-> send_kwargs(body.val, gid, did), calls |-> 1, ret |-> 0]
           ELSE [st |-> "raised", payload |-> payload, gid |-> gid, did |-> did,
                 kwargs |-> NoSend.kwargs, calls |-> 0, ret |-> 0]

\* a caller invokes send_message
SendMessage(payload, gid, did) ==
    /\ sup = "serving"
    /\ snd.st # "called"
    /\ send_message(payload, gid, did)
    /\ UNCHANGED <<supVars, pc, loopVars, call, timer, log, queue, acked, settings, httpVars>>

\* the provider accepts the message and assigns its identifier; a FIFO
\* queue wants a group id
ProviderSend ==
    /\ snd.st = "called"
    /\ Len(queue) < MaxSends
    /\ settings.fifo => "MessageGroupId" \in DOMAIN snd.kwargs
    /\ LET id == Len(queue) + 1
           q == Append(queue, [Body |-> snd.kwargs.MessageBody, st |-> "visible", rc |-> 0])
           ds == (DOMAIN q) \X (1..MaxDeliveries) IN
       /\ queue' = q
       /\ processed' = [d \in ds |-> IF d \in Deliveries THEN processed[d] ELSE NotProcessed]
       /\ ndel' = [d \in ds |-> IF d \in Deliveries THEN ndel[d] ELSE 0]
       /\ acked' = [d \in ds |-> IF d \in Deliveries THEN acked[d] ELSE FALSE]
       /\ snd' = [snd EXCEPT !.st = "returned", !.ret = id]
    /\ UNCHANGED <<supVars, pc, batch, idx, call, timer, log, settings, httpVars>>

\* client.send_message raises; send_message lets the exception through
ProviderSendFails ==
    /\ snd.st = "called"
    /\ snd' = [snd EXCEPT !.st = "raised"]
    /\ UNCHANGED <<supVars, pc, loopVars, call, timer, log, queue, acked, settings, httpVars>>

\* ---------------------------------------------------------------------------
\* Request handler: send_user_data_to_sqs (POST /users/sqs/send), one request
\* at a time
\* ---------------------------------------------------------------------------
ValidDataTypes == {"personal", "financial", "health", "all"}

\* the handler up to its first await: the branch on data_type starts the
\* database read, or raises HTTPException 422 in the else branch
SendUserDataToSqs(data_type, gid, did) ==
    /\ sup = "serving"
    /\ rt.st \in {"idle", "responded"}
    /\ rt' = IF data_type \in ValidDataTypes
             THEN [NoRequest EXCEPT !.st = "reading", !.data_type = data_type,
                                    !.gid = gid, !.did = did]
             ELSE [NoRequest EXCEPT !.st = "responded", !.data_type = data_type,
                                    !.gid = gid, !.did = did, !.status = 422]
    /\ UNCHANGED <<supVars, pc, loopVars, call, timer, log, queue, acked, settings, snd, db>>

\* the database read returns: 404 when the record is missing, else the
\* payload is built, passed through _serialisable and handed to send_message
\* on a worker thread
DbReadReturns ==
    /\ rt.st = "reading"
    /\ LET record == IF rt.data_type = "all" THEN get_user_full(db) ELSE db[rt.data_type]
           found == IF rt.data_type = "all"
                    THEN TruthyValue(db.personal) \/ TruthyValue(db.financial)
                         \/ TruthyValue(db.health)
                    ELSE record[1] # "None"
           payload == PyDict(<<<<"user_id", PyStr(UserId)>>,
                               <<"data_type", PyStr(rt.data_type)>>,
                               <<"data", record>>>>) IN
       IF found
       THEN /\ send_message(serialisable(payload), rt.gid, rt.did)
            /\ rt' = [rt EXCEPT !.st = "sending", !.read = TRUE, !.found = TRUE,
                                !.calls = snd'.calls]
       ELSE /\ rt' = [rt EXCEPT !.st = "responded", !.read = TRUE, !.status = 404]
            /\ snd' = snd
    /\ UNCHANGED <<supVars, pc, loopVars, call, timer, log, queue, acked, settings, db>>

\* the database read raises; the framework answers 500
DbReadRaises ==
    /\ rt.st = "reading"
    /\ rt' = [rt EXCEPT !.st = "responded", !.status = 500]
    /\ UNCHANGED <<supVars, pc, loopVars, call, timer, log, queue, acked, settings, snd, db>>

\* send_message returned the identifier: SQSSendResponse
SendReturns ==
    /\ rt.st = "sending"
    /\ snd.st = "returned"
    /\ rt' = [rt EXCEPT !.st = "responded", !.status = 200, !.message_id = snd.ret]
    /\ UNCHANGED <<supVars, pc, loopVars, call, timer, log, queue, acked, settings, snd, db>>

\* send_message raised; the handler has no except clause, the framework
\* answers 500
SendRaises ==
    /\ rt.st = "sending"
    /\ snd.st = "raised"
    /\ rt' = [rt EXCEPT !.st = "responded", !.status = 500]
    /\ UNCHANGED <<supVars, pc, loopVars, call, timer, log, queue, acked, settings, snd, db>>

\* the handler and the producer: the app is serving, the queue starts empty
RouterInit ==
    /\ sup = "serving"
    /\ pool = "open"
    /\ stop = FALSE
    /\ must_cancel = FALSE
    /\ pc = "created"
    /\ batch = <<>>
    /\ idx = 0
    /\ call = NoCall
    /\ timer = 0
    /\ log = "none"
    /\ queue = <<>>
    /\ processed = [d \in Deliveries |-> NotProcessed]
    /\ ndel = [d \in Deliveries |-> 0]
    /\ acked = [d \in Deliveries |-> FALSE]
    /\ settings = [sqs_queue_url |-> "https://sqs/standard-queue", fifo |-> FALSE]
    /\ snd = NoSend
    /\ db \in Databases
    /\ rt = NoRequest

RouterNext ==
    \/ \E data_type \in DataTypes, gid \in RequestGroupIds, did \in RequestDedupIds :
           SendUserDataToSqs(data_type, gid, did)
    \/ DbReadReturns
    \/ DbReadRaises
    \/ SendReturns
    \/ SendRaises
    \/ ProviderSend
    \/ ProviderSendFails

RouterSpec == RouterInit /\ [][RouterNext]_vars

\* the producer on its own: the app is serving, the queue starts empty
ProducerInit ==
    /\ sup = "serving"
    /\ pool = "open"
    /\ stop = FALSE
    /\ must_cancel = FALSE
    /\ pc = "created"
    /\ batch = <<>>
    /\ idx = 0
    /\ call = NoCall
    /\ timer = 0
    /\ log = "none"
    /\ queue = <<>>
    /\ processed = [d \in Deliveries |-> NotProcessed]
    /\ ndel = [d \in Deliveries |-> 0]
    /\ acked = [d \in Deliveries |-> FALSE]
    /\ settings \in {[sqs_queue_url |-> "https://sqs/standard-queue", fifo |-> FALSE],
                     [sqs_queue_url |-> "https://sqs/orders.fifo", fifo |-> TRUE]}
    /\ snd = NoSend
    /\ db = [personal |-> PyNone, financial |-> PyNone, health |-> PyNone]
    /\ rt = NoRequest

ProducerNext ==
    \/ \E p \in Payloads, gid \in GroupIds, did \in DedupIds : SendMessage(p, gid, did)
    \/ ProviderSend
    \/ ProviderSendFails

ProducerSpec == ProducerInit /\ [][ProducerNext]_vars

Next ==
    \/ Startup
    \/ Shutdown
    \/ AwaitTask
    \/ AwaitTaskRaises
    \/ ClosePool
    \/ TaskStart
    \/ TaskStartFails
    \/ ReceiveReturns
    \/ ReceiveRaises
    \/ DeleteReturns
    \/ DeleteRaises
    \/ SleepReturns
    \/ TaskCancelled
    \/ \E b \in Batches(call.max) : ProviderReceive(b)
    \/ ProviderReceiveFails
    \/ ProviderDelete
    \/ ProviderDeleteFails
    \/ \E m \in Msgs : Expire(m)

Spec == Init /\ [][Next]_vars

\* The event loop runs every task that is ready: a pending cancellation is
\* delivered, and lifespan goes on once the task it awaits has finished.
\* Nothing is assumed about the provider or about the worker threads. The
\* queue it starts on is the one with the deeply nested body.
FairInit == Init /\ [m \in Msgs |-> queue[m].Body] = DeepScenario

FairSpec ==
    /\ FairInit
    /\ [][Next]_vars
    /\ WF_vars(TaskCancelled)
    /\ WF_vars(AwaitTask)
    /\ WF_vars(AwaitTaskRaises)
    /\ WF_vars(ClosePool)

TypeOK ==
    /\ sup \in {"init", "serving", "awaiting", "closing", "closed", "crashed"}
    /\ pc \in {"none", "created", "receive", "delete", "sleep", "done", "cancelled", "failed"}
    /\ timer \in 0..Cooldown


\* ---------------------------------------------------------------------------
\* Properties
\* ---------------------------------------------------------------------------
Running == pc \in {"receive", "delete", "sleep"}
Exited == pc \in {"done", "cancelled"}

\* the step issues a new receive call
IssuesReceive == call' = ReceiveRequest /\ call # ReceiveRequest

\* the step issues a new delete call
IssuesDelete == call'.op = "delete" /\ call'.st = "pending" /\ call'.owner = "task"
                /\ (call.op # "delete" \/ call.st # "pending" \/ call.rh # call'.rh)

\* C1: a delete call is issued for a delivery if and only if its processing
\* step returned; no delete call exists for a delivery whose processing raised
\* or has not run; a message is gone from the queue only after a processing
\* step that returned and a delete the provider acknowledged.
C1_DeleteIffProcessed ==
    /\ \A d \in Deliveries : (ndel[d] > 0) <=> (processed[d].out = "return")
    /\ call.op = "delete" => processed[call.rh].out = "return"
    /\ \A d \in Deliveries : acked[d] => processed[d].out = "return"
    /\ \A m \in Msgs : queue[m].st = "deleted" =>
           \E k \in 1..MaxDeliveries : processed[<<m, k>>].out = "return" /\ acked[<<m, k>>]

C1_Witness ==
    \E d, e \in Deliveries :
        /\ processed[d].out = "raise" /\ ndel[d] = 0 /\ queue[d[1]].st # "deleted"
        /\ processed[e].out = "return" /\ ndel[e] = 1 /\ queue[e[1]].st = "deleted"

\* the delete call of delivery d is no longer outstanding
DeleteOver(d) == ndel[d] > 0 /\ ~(call.op = "delete" /\ call.rh = d)

\* C2 as stated: while the consumer runs, a message whose processing returned
\* is deleted once the delete call of that invocation is over.
C2_DeletedAfterSuccess ==
    (Running /\ ~must_cancel) =>
        \A d \in Deliveries :
            (processed[d].out = "return" /\ DeleteOver(d)) => queue[d[1]].st = "deleted"

\* C2, amended: every processing step that returned is followed by exactly one
\* delete call for that delivery, never a second one; the message is deleted
\* when the provider acknowledges that call; a message whose processing raises
\* on every invocation is never deleted.
C2_OneDeletePerSuccess ==
    /\ \A d \in Deliveries : ndel[d] <= 1
    /\ \A d \in Deliveries : processed[d].out = "return" => ndel[d] = 1
    /\ \A d \in Deliveries : acked[d] => queue[d[1]].st = "deleted"
    /\ \A m \in Msgs : process_message([Body |-> queue[m].Body]).out = "raise" =>
           /\ queue[m].st # "deleted"
           /\ \A k \in 1..MaxDeliveries : ndel[<<m, k>>] = 0

C2_Witness ==
    \E m, n \in Msgs :
        /\ processed[<<m, 1>>].out = "return" /\ ~acked[<<m, 1>>]
        /\ processed[<<m, 2>>].out = "return" /\ acked[<<m, 2>>]
        /\ processed[<<n, 1>>].out = "raise" /\ processed[<<n, 2>>].out = "raise"

\* C3 as stated: while a batch is in progress and the stop signal is set, the
\* consumer loop does not return.
C3_NoExitMidBatch ==
    [][(stop /\ batch # <<>>) => ~(Exited')]_vars

\* C4: once the supervisor has set the stop signal (its shutdown has begun),
\* no step issues a new receive call.
C4_NoReceiveAfterStop ==
    [][(stop \/ sup \notin {"init", "serving"}) => ~IssuesReceive]_vars

C4_Witness ==
    stop /\ pc = "cancelled" /\ call.op = "receive" /\ call.owner = "orphan"

\* C5: a receive or delete call that failed does not end the loop: the
\* consumer logs, sleeps for 5 time units, and after the sleep re-checks the
\* stop signal and issues another receive call if it is still running.
C5_ErrorCooldown ==
    [][/\ (pc \in {"receive", "delete"} /\ call.res = "error" /\ pc' # pc) =>
            \/ pc' = "sleep" /\ timer' = 5 /\ log' = "error" /\ call' = NoCall
            \/ must_cancel /\ pc' = "cancelled"
       /\ (pc = "sleep" /\ pc' # "sleep") =>
            \/ ~stop /\ pc' = "receive" /\ IssuesReceive
            \/ stop /\ pc' \in {"done", "cancelled"}
       /\ pc' # "failed" \/ pc \in {"created", "failed"}]_vars

C5_Witness ==
    pc = "receive" /\ call = ReceiveRequest /\ log = "error" /\ timer = 0
    /\ \E d \in Deliveries : ndel[d] = 1 /\ ~acked[d] /\ queue[d[1]].st = "inflight"

\* C6: the consumer task exists once the app serves, the stop signal is set
\* once shutdown has begun, and the pool is closed only when the consumer
\* task has finished.
C6_TeardownAfterConsumer ==
    /\ sup = "serving" => pc # "none"
    /\ sup \in {"awaiting", "closing", "closed"} => stop
    /\ sup \in {"closing", "closed"} => ~Running /\ pc \in {"done", "cancelled"}
    /\ pool = "closed" => sup = "closed" /\ pc \in {"done", "cancelled"}

C6_Witness ==
    sup = "closed" /\ pool = "closed" /\ pc = "cancelled" /\ stop

\* C7 as stated: the consumer leaves Running only by observing the stop
\* signal at the top of an iteration.
C7_ExitOnlyAtLoopTop ==
    [][(Running /\ ~Running') => (stop /\ pc' = "done")]_vars

\* C7, amended: the consumer leaves Running only after the stop signal is set,
\* either at the top of an iteration or by the cancellation of its task at an
\* await; having left, it stays where it is and issues no receive, process or
\* delete step.
C7_ExitOnceAfterStop ==
    [][/\ (Running /\ ~Running') => (stop /\ Exited')
       /\ ~Running' \/ Running \/ pc = "created"
       /\ (pc \in {"done", "cancelled", "failed"}) =>
            /\ pc' = pc
            /\ processed' = processed
            /\ ndel' = ndel
            /\ ~IssuesReceive
            /\ ~IssuesDelete]_vars

C7_Witness ==
    stop /\ pc = "cancelled" /\ sup = "closed" /\ call.owner = "orphan"

\* the three messages of the scenario, each in its first delivery
ScenarioQueue ==
    /\ Len(queue) = 3
    /\ {queue[m].Body : m \in Msgs} = {BodyId1, BodyId2, BodyNotJson}

RECURSIVE SumDeletes(_)
SumDeletes(D) == IF D = {} THEN 0
                 ELSE LET d == CHOOSE x \in D : TRUE IN ndel[d] + SumDeletes(D \ {d})

C9_KeysOmittedOnStandardQueue ==
    (snd.st # "idle" /\ snd.gid = "group-A" /\ snd.did = None /\ ~settings.fifo) =>
        /\ "MessageGroupId" \notin DOMAIN snd.kwargs
        /\ "MessageDeduplicationId" \notin DOMAIN snd.kwargs

C11_ExactlyOneSendCall ==
    /\ snd.st # "idle" => snd.calls = 1
    /\ snd.st = "returned" =>
           /\ snd.ret \in Msgs
           /\ queue[snd.ret].Body = snd.kwargs.MessageBody

\* C12: every receive call asks for at most 10 messages and a wait of at most
\* 20 time units, whatever came before it, and no response holds more
\* messages than were asked for.
C12_ReceiveBounded ==
    call.op = "receive" =>
        /\ call.max >= 1 /\ call.max <= 10
        /\ call.wait >= 0 /\ call.wait <= 20
        /\ Len(call.msgs) <= call.max

C12_Witness ==
    /\ pc = "receive" /\ call.op = "receive" /\ call.st = "pending" /\ log = "error"
    /\ \E d, e \in Deliveries : acked[d] /\ processed[e].out = "raise"

\* C13 as stated: when the loop is back at the stop check or at the next
\* receive call (or sleeps before them), no message of a batch it received is
\* left unprocessed.
C13_BatchProcessedBeforeNextIteration ==
    pc \in {"receive", "sleep", "done"} => \A d \in Deliveries : processed[d].out # "fetched"

\* C14: a cancellation that reaches the consumer while it waits in a receive,
\* in a delete or in the cooldown sleep ends it at once without the error
\* path: no error line is logged, no cooldown is started, no receive or delete
\* is issued; the supervisor's await does not fail on it, and shutdown goes on
\* to close the database pool.
C14_CancelIsNormalExit ==
    [][/\ (must_cancel /\ pc' # pc) =>
            /\ pc' = "cancelled"
            /\ log' = log
            /\ timer' = 0
            /\ ~IssuesReceive /\ ~IssuesDelete
       /\ (pc = "cancelled" /\ sup = "awaiting" /\ sup' # sup) => sup' = "closing"
       /\ (pc = "cancelled" /\ sup = "closing" /\ sup' # sup) =>
            sup' = "closed" /\ pool' = "closed"
       /\ (pc = "cancelled") => (pc' = "cancelled" /\ sup' # "crashed")]_vars

C14_Witness ==
    /\ pc = "cancelled" /\ sup = "closed" /\ pool = "closed"
    /\ call.op = "delete" /\ call.owner = "orphan"
    /\ log # "error"

ProcessingStarts(d) ==
    /\ processed[d].out \notin {"return", "raise"}
    /\ processed'[d].out \in {"return", "raise"}

\* C16: the messages of a batch are handled one after the other in the order
\* returned: the processing step of the first message runs when the receive
\* has returned, the processing step of message i+1 runs when the delete call
\* of message i has returned; and the consumer issues a call only when it has
\* no other call outstanding.
C16_SequentialHandling ==
    [][/\ (call' # call /\ call'.st = "pending" /\ call'.owner = "task") =>
            call.st \in {"none", "returned"}
       /\ \A d \in Deliveries : ProcessingStarts(d) =>
            \/ /\ pc = "receive" /\ call.op = "receive" /\ call.st = "returned"
               /\ call.msgs # <<>>
               /\ call.msgs[1].ReceiptHandle = d
            \/ /\ pc = "delete" /\ call.op = "delete" /\ call.st = "returned"
               /\ idx < Len(batch)
               /\ call.rh = batch[idx].ReceiptHandle
               /\ batch[idx + 1].ReceiptHandle = d
               /\ \A i \in 1..idx : processed[batch[i].ReceiptHandle].out = "return"
               /\ \A i \in (idx + 1)..Len(batch) :
                      processed[batch[i].ReceiptHandle].out = "fetched"]_vars

C16_Witness ==
    /\ pc = "delete" /\ Len(batch) >= 2 /\ idx = 2
    /\ call.op = "delete" /\ call.st = "pending"
    /\ acked[batch[1].ReceiptHandle]

\* C17: a delete call of the consumer carries the receipt token of the
\* message the for loop is at: the token of the delivery in the current
\* batch, which is the latest delivery of that message and the one whose
\* processing step has just returned.
C17_DeleteCarriesCurrentReceipt ==
    (call.op = "delete" /\ call.owner = "task") =>
        /\ pc = "delete"
        /\ idx \in 1..Len(batch)
        /\ call.rh = batch[idx].ReceiptHandle
        /\ call.rh \in Deliveries
        /\ call.rh[1] = batch[idx].MessageId
        /\ call.rh[2] = queue[call.rh[1]].rc
        /\ processed[call.rh].out = "return"

C17_Witness ==
    /\ pc = "delete" /\ call.op = "delete" /\ call.st = "returned" /\ call.res = "ok"
    /\ call.rh[2] = 2
    /\ queue[call.rh[1]].st = "deleted"
    /\ ndel[<<call.rh[1], 1>>] = 1

\* C18 as stated: once shutdown has completed, no receive or delete call the
\* consumer started is still in flight.
C18_NoCallAfterShutdown ==
    sup = "closed" => call.st # "pending"

\* C19: POST /users/sqs/send answers 422 for a data_type outside personal,
\* financial, health, all and 404 for a missing record, in both cases with no
\* send call; a send call is made only after the database read; and a request
\* whose data_type is valid and whose record was found makes exactly one send
\* call.
C19_SendOnlyAfterValidation ==
    /\ (rt.st # "idle" /\ rt.data_type \notin ValidDataTypes) =>
           rt.status = 422 /\ rt.calls = 0 /\ ~rt.read
    /\ rt.status = 404 => rt.read /\ ~rt.found /\ rt.calls = 0
    /\ rt.calls > 0 => rt.read /\ rt.found
    /\ (rt.st \in {"sending", "responded"} /\ rt.found) => rt.calls = 1

====
